---- MODULE Spec2Model ----
(***************************************************************************)
(* Model of redox-log (src/src/lib.rs): the RedoxLogger builder calls      *)
(* (with_output, with_min_level_override, with_max_level_override), its    *)
(* installation through the log facade (enable), and the log::Log          *)
(* implementation (enabled, log, flush) run by concurrent threads over     *)
(* mutex-guarded endpoints.                                                *)
(***************************************************************************)
EXTENDS Integers, Sequences, FiniteSets, TLC

(***************************************************************************)
(* Bounds of the model.                                                    *)
(***************************************************************************)
\* builder calls (with_output / overrides) the program makes in total
MaxCalls == 3
\* RedoxLogger values the program builds and tries to enable
MaxRouters == 2
\* outputs of the logger the threads log to
MaxOutputs == 2
\* threads calling the installed logger
NumThreads == 2
\* log()/flush() calls each thread makes
MaxLogCalls == 1
\* setter calls on one OutputBuilder before build()
MaxSetters == 1
\* endpoints of the logger whose Write is not healthy
MaxFaulty == 1

\* Setter calls on the OutputBuilder chain of BuilderSpec.
MaxChain == 3

(***************************************************************************)
(* log::LevelFilter and log::Level, by discriminant:                       *)
(* Off = 0 < Error = 1 < Warn = 2 < Info = 3 < Debug = 4 < Trace = 5.      *)
(* A Level is compared with a LevelFilter by discriminant.                 *)
(***************************************************************************)
Off == 0
Error == 1
Warn == 2
Info == 3
Debug == 4
Trace == 5
LevelFilter == Off..Trace
Level == Error..Trace

\* Option<T>: None is the empty sequence, Some(x) the one-element sequence.
None == << >>
Some(x) == << x >>
OptionOf(S) == {None} \cup {Some(x) : x \in S}

\* std::cmp::max / std::cmp::min on LevelFilter
cmp_max(a, b) == IF b >= a THEN b ELSE a
cmp_min(a, b) == IF a <= b THEN a ELSE b

(***************************************************************************)
(* OutputBuilder: the staged fields (the endpoint itself is the Output's   *)
(* position in the logger and is kept in the endpoint variables below).    *)
(***************************************************************************)
\* OutputBuilder::with_dyn_endpoint (stdout, stderr, with_endpoint)
with_dyn_endpoint == [flush_on_newline |-> None, filter |-> None, ansi |-> None]
\* OutputBuilder::flush_on_newline
flush_on_newline(self, flush) == [self EXCEPT !.flush_on_newline = Some(flush)]
\* Variant: a filter that is already staged is kept.
with_filter_keeps_first(self, filter) ==
    IF self.filter = None THEN [self EXCEPT !.filter = Some(filter)] ELSE self

\* OutputBuilder::with_filter
with_filter(self, filter) == [self EXCEPT !.filter = Some(filter)]
\* OutputBuilder::with_ansi_escape_codes
with_ansi_escape_codes(self) == [self EXCEPT !.ansi = Some(TRUE)]

\* Option::unwrap_or
unwrap_or(opt, default) == IF opt = None THEN default ELSE opt[1]

\* OutputBuilder::build
build(self) ==
    [filter |-> unwrap_or(self.filter, Info),
     flush_on_newline |-> unwrap_or(self.flush_on_newline, TRUE),
     ansi |-> unwrap_or(self.ansi, FALSE)]

\* The builders reached by at most k setter calls, and the Outputs they build.
RECURSIVE Builders(_)
Builders(k) ==
    IF k = 0 THEN {with_dyn_endpoint}
    ELSE LET B == Builders(k - 1)
         IN  B \cup {with_filter(b, f) : b \in B, f \in LevelFilter}
               \cup {flush_on_newline(b, v) : b \in B, v \in BOOLEAN}
               \cup {with_ansi_escape_codes(b) : b \in B}
BuiltOutputs == {build(b) : b \in Builders(MaxSetters)}

\* RedoxLogger::new() = Self::default()
new ==
    [outputs |-> << >>,
     min_filter |-> None,
     max_filter |-> None,
     max_level_in_use |-> None,
     min_level_in_use |-> None]

(***************************************************************************)
(* RedoxLogger::adjust_output_level: the new output.filter and the new     *)
(* max_in_use / min_in_use (the three &mut arguments).                     *)
(***************************************************************************)
adjust_filter(max_filter, min_filter, filter) ==
    LET f1 == IF max_filter # None THEN cmp_max(filter, max_filter[1]) ELSE filter
    IN  IF min_filter # None THEN cmp_min(f1, min_filter[1]) ELSE f1

\* Variant: the aggregate keeps the first filter it was given.
adjust_max_in_use_keeps_first(max_in_use, filter) ==
    IF max_in_use # None THEN max_in_use ELSE Some(filter)

\* Variant: the last adjusted filter overwrites the aggregate.
adjust_max_in_use_overwrites(max_in_use, filter) == Some(filter)

adjust_max_in_use(max_in_use, filter) ==
    IF max_in_use # None THEN Some(cmp_max(filter, max_in_use[1])) ELSE Some(filter)

adjust_min_in_use(min_in_use, filter) ==
    IF min_in_use # None THEN Some(cmp_min(filter, min_in_use[1])) ELSE Some(filter)

adjust_output_level(max_filter, min_filter, max_in_use, min_in_use, output) ==
    LET f == adjust_filter(max_filter, min_filter, output.filter)
    IN  [output |-> [output EXCEPT !.filter = f],
         max_in_use |-> adjust_max_in_use(max_in_use, f),
         min_in_use |-> adjust_min_in_use(min_in_use, f)]

\* RedoxLogger::with_output
with_output(self, output) ==
    LET a == adjust_output_level(self.max_filter, self.min_filter,
                                 self.max_level_in_use, self.min_level_in_use, output)
    IN  [self EXCEPT !.outputs = Append(self.outputs, a.output),
                     !.max_level_in_use = a.max_in_use,
                     !.min_level_in_use = a.min_in_use]

\* `for output in &mut self.outputs { Self::adjust_output_level(..) }`,
\* from output k on.
RECURSIVE adjust_all(_, _)
adjust_all(self, k) ==
    IF k > Len(self.outputs) THEN self
    ELSE LET a == adjust_output_level(self.max_filter, self.min_filter,
                                      self.max_level_in_use, self.min_level_in_use,
                                      self.outputs[k])
         IN  adjust_all([self EXCEPT !.outputs[k] = a.output,
                                     !.max_level_in_use = a.max_in_use,
                                     !.min_level_in_use = a.min_in_use], k + 1)

\* RedoxLogger::with_min_level_override
with_min_level_override(self, min) ==
    adjust_all([self EXCEPT !.min_filter = Some(min)], 1)

\* RedoxLogger::with_max_level_override
with_max_level_override(self, max) ==
    adjust_all([self EXCEPT !.max_filter = Some(max)], 1)

\* <RedoxLogger as log::Log>::enabled
enabled(self, level) ==
    /\ (IF self.max_level_in_use # None THEN level >= self.max_level_in_use[1] ELSE FALSE)
    /\ (IF self.min_level_in_use # None THEN level <= self.min_level_in_use[1] ELSE FALSE)

(***************************************************************************)
(* RedoxLogger::enable against the facade's statics: log::set_logger fails *)
(* when a logger is already set, and `?` then returns before               *)
(* log::set_max_level is called.  slot is the facade's logger, max_level   *)
(* the facade's maximum level.                                             *)
(***************************************************************************)
\* Variant of enable that calls log::set_max_level before log::set_logger.
enable_sets_max_level_first(self, slot, max_level) ==
    LET m == IF self.max_level_in_use # None THEN self.max_level_in_use[1] ELSE Off
    IN  IF slot # None
        THEN [slot |-> slot, max_level |-> m, result |-> "Err"]
        ELSE [slot |-> Some(self), max_level |-> m, result |-> "Ok"]

enable(self, slot, max_level) ==
    IF slot # None
    THEN [slot |-> slot, max_level |-> max_level, result |-> "Err"]
    ELSE [slot |-> Some(self),
          max_level |-> IF self.max_level_in_use # None
                        THEN self.max_level_in_use[1] ELSE Off,
          result |-> "Ok"]

VARIABLES
    logger,         \* the RedoxLogger value the program is building
    stage,          \* "build": logger is owned by the builder chain; "enabled": enable(self) consumed it
    ncalls,         \* builder calls made so far
    nrouters,       \* RedoxLogger::new() calls made so far
    LOGGER,         \* the facade's logger static (log::set_logger)
    MAX_LEVEL,      \* the facade's maximum level static (log::set_max_level)
    enable_result,  \* what the last enable() returned: "none", "Ok", "Err"
    kind,           \* per endpoint of the installed logger: how its Write behaves
    holder,         \* per endpoint: the thread holding its Mutex, 0 when free
    poisoned,       \* per endpoint: the Mutex's poison flag
    sink,           \* per endpoint: the write/flush calls made on it, in order
    acquired,       \* per endpoint: the calls whose lock() returned Ok, in order
    th,             \* per thread: where it is in log() / flush()
    perm,           \* two builder chains adding the same Outputs in different orders
    fmt,            \* a record, the instant it is written at, and what write_record wrote
    ob              \* an OutputBuilder chain, the calls made on it, and what build() gave

cvars == <<logger, stage, ncalls, nrouters, LOGGER, MAX_LEVEL, enable_result>>
rvars == <<kind, holder, poisoned, sink, acquired, th>>
xvars == <<perm, fmt, ob>>
vars == <<logger, stage, ncalls, nrouters, LOGGER, MAX_LEVEL, enable_result,
          kind, holder, poisoned, sink, acquired, th, perm, fmt, ob>>

Threads == 1..NumThreads

\* A thread that is not inside a Log call.
Idle == [pc |-> "idle", op |-> "none", level |-> Off, i |-> 0, n |-> 0, part |-> "none", admitted |-> FALSE]

(***************************************************************************)
(* The builder chain and the installation.                                 *)
(***************************************************************************)
Init ==
    /\ logger = new
    /\ stage = "build"
    /\ ncalls = 0
    /\ nrouters = 1
    /\ LOGGER = None
    /\ MAX_LEVEL = Off
    /\ enable_result = "none"
    /\ kind = << >>
    /\ holder = << >>
    /\ poisoned = << >>
    /\ sink = << >>
    /\ acquired = << >>
    /\ th = [t \in Threads |-> Idle]
    /\ perm = << >>
    /\ fmt = << >>
    /\ ob = << >>

WithOutput ==
    /\ stage = "build"
    /\ ncalls < MaxCalls
    /\ \E output \in BuiltOutputs : logger' = with_output(logger, output)
    /\ ncalls' = ncalls + 1
    /\ UNCHANGED <<stage, nrouters, LOGGER, MAX_LEVEL, enable_result>>
    /\ UNCHANGED <<rvars, xvars>>

WithMinLevelOverride ==
    /\ stage = "build"
    /\ ncalls < MaxCalls
    /\ \E min \in LevelFilter : logger' = with_min_level_override(logger, min)
    /\ ncalls' = ncalls + 1
    /\ UNCHANGED <<stage, nrouters, LOGGER, MAX_LEVEL, enable_result>>
    /\ UNCHANGED <<rvars, xvars>>

WithMaxLevelOverride ==
    /\ stage = "build"
    /\ ncalls < MaxCalls
    /\ \E max \in LevelFilter : logger' = with_max_level_override(logger, max)
    /\ ncalls' = ncalls + 1
    /\ UNCHANGED <<stage, nrouters, LOGGER, MAX_LEVEL, enable_result>>
    /\ UNCHANGED <<rvars, xvars>>

Enable ==
    /\ stage = "build"
    /\ LET e == enable(logger, LOGGER, MAX_LEVEL)
       IN  /\ LOGGER' = e.slot
           /\ MAX_LEVEL' = e.max_level
           /\ enable_result' = e.result
    /\ stage' = "enabled"
    /\ UNCHANGED <<logger, ncalls, nrouters>>
    /\ UNCHANGED <<rvars, xvars>>

\* The program starts another builder chain with RedoxLogger::new().
New ==
    /\ stage = "enabled"
    /\ nrouters < MaxRouters
    /\ logger' = new
    /\ stage' = "build"
    /\ nrouters' = nrouters + 1
    /\ UNCHANGED <<ncalls, LOGGER, MAX_LEVEL, enable_result>>
    /\ UNCHANGED <<rvars, xvars>>

Next ==
    \/ WithOutput
    \/ WithMinLevelOverride
    \/ WithMaxLevelOverride
    \/ Enable
    \/ New

Spec == Init /\ [][Next]_vars

(***************************************************************************)
(* The installed logger at run time: <RedoxLogger as log::Log>::log and    *)
(* ::flush, called by concurrent threads.  Each Output's endpoint is a     *)
(* Mutex<Box<dyn Write + Send>>; how the boxed Write behaves is the        *)
(* endpoint's kind:                                                        *)
(*   "healthy"   every write and flush succeeds                            *)
(*   "failing"   every write and flush returns Err                         *)
(*   "blocking"  a write or flush never returns                            *)
(*   "panicking" a write or flush panics                                   *)
(* A panic while the MutexGuard is alive poisons the Mutex and unwinds     *)
(* out of log()/flush().                                                   *)
(***************************************************************************)
Kinds == {"healthy", "failing", "blocking", "panicking"}

installed == LOGGER[1]

\* Variant: an endpoint without mutual exclusion.
lock_never_excludes(h) == TRUE
\* Mutex::lock returns only while no thread holds the mutex.
lock_available(h) == h = 0

\* Variant: the filter test with `<`.
accepts_strictly_below(level, filter) == level < filter
\* `record.metadata().level() <= output.filter`
accepts(level, filter) == level <= filter

\* `for output in &self.outputs`: on to output i, or return after the last.
step_to(thr, self, i) ==
    IF i <= Len(self.outputs)
    THEN [thr EXCEPT !.pc = "lock", !.i = i, !.part = "none"]
    ELSE [thr EXCEPT !.pc = "idle", !.i = 0, !.part = "none"]

\* Variant: `output.endpoint.lock().unwrap()`.
on_poison_unwrap(thr, self) == [thr EXCEPT !.pc = "panicked", !.part = "none"]
\* lock() returned Err(PoisonError): `_ => continue` (the guard inside the
\* error is dropped with it).
on_poison(thr, self) == step_to(thr, self, thr.i + 1)

\* lock() returned Ok(guard): log() writes the record if the output's filter
\* accepts it, flush() goes on to flush.
locked(thr, output) ==
    IF thr.op = "log" /\ accepts(thr.level, output.filter)
    THEN [thr EXCEPT !.pc = "write", !.part = "head"]
    ELSE [thr EXCEPT !.pc = "flush", !.part = "none"]

\* Variant: `Self::write_record(..)?`, the error ends log().
on_write_error_return(thr, self) == [thr EXCEPT !.pc = "idle", !.i = 0, !.part = "none"]
\* `let _ = Self::write_record(..)`: an Err is dropped and log() goes on to
\* the flush of the same output.
on_write_error(thr, self) == [thr EXCEPT !.pc = "flush", !.part = "none"]

\* log() flushes when output.flush_on_newline; flush() always does.
\* Variant: log() flushes only after a record it wrote.
does_flush_after_write(thr, output) ==
    thr.op = "flush" \/ (output.flush_on_newline /\ accepts(thr.level, output.filter))

does_flush(thr, output) == thr.op = "flush" \/ output.flush_on_newline

\* One call made on an endpoint's Write.  write_record's writeln! reaches the
\* endpoint as several write calls: the line up to its last piece ("head")
\* and the rest with the newline ("tail"); ansi selects the styled format.
WriteCall(thr, t, output, ok) ==
    [call |-> "write", part |-> thr.part, by |-> t, n |-> thr.n,
     level |-> thr.level, ansi |-> output.ansi, ok |-> ok]
FlushCall(thr, t, ok) ==
    [call |-> "flush", part |-> "none", by |-> t, n |-> thr.n,
     level |-> thr.level, ansi |-> FALSE, ok |-> ok]

\* RedoxLogger::new() followed by n with_output calls.
RECURSIVE LoggersWith(_)
LoggersWith(n) ==
    IF n = 0 THEN {new}
    ELSE {with_output(self, output) : self \in LoggersWith(n - 1), output \in BuiltOutputs}

RunInit ==
    \E n \in 0..MaxOutputs : \E self \in LoggersWith(n) :
        LET e == enable(self, None, Off)
        IN  /\ logger = self
            /\ stage = "enabled"
            /\ ncalls = n
            /\ nrouters = 1
            /\ LOGGER = e.slot
            /\ MAX_LEVEL = e.max_level
            /\ enable_result = e.result
            /\ kind \in {k \in [1..n -> Kinds] :
                          Cardinality({i \in 1..n : k[i] # "healthy"}) <= MaxFaulty}
            /\ holder = [i \in 1..n |-> 0]
            /\ poisoned = [i \in 1..n |-> FALSE]
            /\ sink = [i \in 1..n |-> << >>]
            /\ acquired = [i \in 1..n |-> << >>]
            /\ th = [t \in Threads |-> Idle]
            /\ perm = << >>
            /\ fmt = << >>
            /\ ob = << >>

\* Thread t calls log(record) with a record of some level.  (The facade's
\* macros call log() for levels up to MAX_LEVEL; log::logger().log(..) can be
\* called with any record, and log() does not consult enabled().)
CallLog(t) ==
    /\ th[t].pc = "idle"
    /\ th[t].n < MaxLogCalls
    /\ \E level \in Level :
          th' = [th EXCEPT ![t] =
                    step_to([th[t] EXCEPT !.op = "log", !.level = level, !.n = @ + 1],
                            installed, 1)]
    /\ UNCHANGED <<kind, holder, poisoned, sink, acquired>>
    /\ UNCHANGED <<cvars, xvars>>

\* Variant: enabled() remembers the level it was asked about as the new
\* min_level_in_use.
CallEnabled_remembers_level(t) ==
    /\ th[t].pc = "idle"
    /\ th[t].n < MaxLogCalls
    /\ \E level \in Level :
          /\ th' = [th EXCEPT ![t] =
                       [th[t] EXCEPT !.op = "enabled", !.level = level, !.n = @ + 1,
                                     !.admitted = enabled(installed, level)]]
          /\ LOGGER' = Some([installed EXCEPT !.min_level_in_use = Some(level)])
    /\ UNCHANGED <<kind, holder, poisoned, sink, acquired>>
    /\ UNCHANGED <<logger, stage, ncalls, nrouters, MAX_LEVEL, enable_result>>
    /\ UNCHANGED xvars

\* Thread t calls enabled(metadata) with the metadata of some level.
CallEnabled(t) ==
    /\ th[t].pc = "idle"
    /\ th[t].n < MaxLogCalls
    /\ \E level \in Level :
          th' = [th EXCEPT ![t] =
                    [th[t] EXCEPT !.op = "enabled", !.level = level, !.n = @ + 1,
                                  !.admitted = enabled(installed, level)]]
    /\ UNCHANGED <<kind, holder, poisoned, sink, acquired>>
    /\ UNCHANGED <<cvars, xvars>>

\* Thread t calls flush().
CallFlush(t) ==
    /\ th[t].pc = "idle"
    /\ th[t].n < MaxLogCalls
    /\ th' = [th EXCEPT ![t] =
                 step_to([th[t] EXCEPT !.op = "flush", !.level = Off, !.n = @ + 1],
                         installed, 1)]
    /\ UNCHANGED <<kind, holder, poisoned, sink, acquired>>
    /\ UNCHANGED <<cvars, xvars>>

\* Variant: one lock for the whole logger, taken for each output.
Lock_logger_wide(t) ==
    /\ th[t].pc = "lock"
    /\ \A i \in DOMAIN holder : lock_available(holder[i])
    /\ IF poisoned[th[t].i]
       THEN /\ th' = [th EXCEPT ![t] = on_poison(th[t], installed)]
            /\ UNCHANGED <<holder, acquired>>
       ELSE /\ th' = [th EXCEPT ![t] = locked(th[t], installed.outputs[th[t].i])]
            /\ holder' = [holder EXCEPT ![th[t].i] = t]
            /\ acquired' = [acquired EXCEPT ![th[t].i] = Append(@, <<t, th[t].n>>)]
    /\ UNCHANGED <<kind, poisoned, sink>>
    /\ UNCHANGED <<cvars, xvars>>

\* `output.endpoint.lock()`
Lock(t) ==
    /\ th[t].pc = "lock"
    /\ lock_available(holder[th[t].i])
    /\ IF poisoned[th[t].i]
       THEN /\ th' = [th EXCEPT ![t] = on_poison(th[t], installed)]
            /\ UNCHANGED <<holder, acquired>>
       ELSE /\ th' = [th EXCEPT ![t] = locked(th[t], installed.outputs[th[t].i])]
            /\ holder' = [holder EXCEPT ![th[t].i] = t]
            /\ acquired' = [acquired EXCEPT ![th[t].i] = Append(@, <<t, th[t].n>>)]
    /\ UNCHANGED <<kind, poisoned, sink>>
    /\ UNCHANGED <<cvars, xvars>>

\* Variant: the guard outlives the loop body.
release_keeps_guard(h, i, thr) == h

\* The guard is dropped when the thread leaves the loop body.
release(h, i, thr) ==
    IF thr.pc \in {"write", "flush"} THEN h ELSE [h EXCEPT ![i] = 0]

\* One write call of write_record on the locked endpoint.
Write(t) ==
    /\ th[t].pc = "write"
    /\ kind[th[t].i] # "blocking"
    /\ LET i == th[t].i
           output == installed.outputs[i]
           thr == CASE kind[i] = "healthy" ->
                         IF th[t].part = "head" THEN [th[t] EXCEPT !.part = "tail"]
                         ELSE [th[t] EXCEPT !.pc = "flush", !.part = "none"]
                    [] kind[i] = "failing" -> on_write_error(th[t], installed)
                    [] kind[i] = "panicking" -> [th[t] EXCEPT !.pc = "panicked", !.part = "none"]
       IN  /\ th' = [th EXCEPT ![t] = thr]
           /\ sink' = IF kind[i] = "panicking" THEN sink
                      ELSE [sink EXCEPT ![i] =
                               Append(@, WriteCall(th[t], t, output, kind[i] = "healthy"))]
           /\ poisoned' = [poisoned EXCEPT ![i] = @ \/ kind[i] = "panicking"]
           /\ holder' = release(holder, i, thr)
    /\ UNCHANGED <<kind, acquired>>
    /\ UNCHANGED <<cvars, xvars>>

\* `if output.flush_on_newline { let _ = endpoint_guard.flush(); }` in log(),
\* `let _ = e.flush();` in flush(), and the end of the loop body.
Flush(t) ==
    /\ th[t].pc = "flush"
    /\ LET i == th[t].i
           output == installed.outputs[i]
           does == does_flush(th[t], output)
           thr == IF does /\ kind[i] = "panicking"
                  THEN [th[t] EXCEPT !.pc = "panicked", !.part = "none"]
                  ELSE step_to(th[t], installed, i + 1)
       IN  /\ does => kind[i] # "blocking"
           /\ th' = [th EXCEPT ![t] = thr]
           /\ sink' = IF does /\ kind[i] # "panicking"
                      THEN [sink EXCEPT ![i] =
                               Append(@, FlushCall(th[t], t, kind[i] = "healthy"))]
                      ELSE sink
           /\ poisoned' = [poisoned EXCEPT ![i] = @ \/ (does /\ kind[i] = "panicking")]
           /\ holder' = release(holder, i, thr)
    /\ UNCHANGED <<kind, acquired>>
    /\ UNCHANGED <<cvars, xvars>>

RunNext ==
    \E t \in Threads :
        \/ CallEnabled(t)
        \/ CallLog(t)
        \/ CallFlush(t)
        \/ Lock(t)
        \/ Write(t)
        \/ Flush(t)

RunSpec == RunInit /\ [][RunNext]_vars

\* Every thread that can take a step eventually takes one: a running thread
\* is scheduled, and a thread waiting in lock() gets the mutex once it is
\* free for good.
FairRunSpec ==
    /\ RunSpec
    /\ \A t \in Threads : WF_vars(Lock(t) \/ Write(t) \/ Flush(t))

(***************************************************************************)
(* Two builder chains that start from the same overrides and add the same  *)
(* Outputs: chain a in the order given, chain b in any order.              *)
(***************************************************************************)
\* RedoxLogger::new() with the overrides min and max applied where given.
with_overrides(min, max) ==
    LET l1 == IF max # None THEN with_max_level_override(new, max[1]) ELSE new
    IN  IF min # None THEN with_min_level_override(l1, min[1]) ELSE l1

\* The sequences of 1..n Outputs.
RECURSIVE OutputSeqs(_)
OutputSeqs(n) ==
    IF n = 0 THEN {<< >>}
    ELSE LET S == OutputSeqs(n - 1)
         IN  S \cup {Append(q, o) : q \in S, o \in BuiltOutputs}

\* The variables of the other specifications, at rest.
AtRest ==
    /\ logger = new
    /\ stage = "build"
    /\ ncalls = 0
    /\ nrouters = 1
    /\ LOGGER = None
    /\ MAX_LEVEL = Off
    /\ enable_result = "none"
    /\ kind = << >>
    /\ holder = << >>
    /\ poisoned = << >>
    /\ sink = << >>
    /\ acquired = << >>
    /\ th = [t \in Threads |-> Idle]

PermInit ==
    /\ AtRest
    /\ fmt = << >>
    /\ ob = << >>
    /\ \E min \in OptionOf(LevelFilter), max \in OptionOf(LevelFilter) :
       \E outs \in OutputSeqs(MaxOutputs) \ {<< >>} :
          perm = [outs |-> outs,
                  a |-> with_overrides(min, max),
                  b |-> with_overrides(min, max),
                  next_a |-> 1,
                  left_b |-> DOMAIN outs]

\* chain a: .with_output(outs[next_a])
PermAddA ==
    /\ perm.next_a <= Len(perm.outs)
    /\ perm' = [perm EXCEPT !.a = with_output(@, perm.outs[perm.next_a]),
                            !.next_a = @ + 1]
    /\ UNCHANGED <<cvars, rvars, fmt, ob>>

\* chain b: .with_output(outs[k]) for any k not added yet
PermAddB ==
    /\ \E k \in perm.left_b :
          perm' = [perm EXCEPT !.b = with_output(@, perm.outs[k]),
                               !.left_b = @ \ {k}]
    /\ UNCHANGED <<cvars, rvars, fmt, ob>>

PermNext == PermAddA \/ PermAddB

PermSpec == PermInit /\ [][PermNext]_vars

(***************************************************************************)
(* write_record: the text of one line.  A text is a sequence of pieces     *)
(* (strings); Cat joins them.  The escape sequences termion's Display      *)
(* impls emit are pieces of their own, written with ^[ for the ESC byte.   *)
(***************************************************************************)
RECURSIVE Cat(_)
Cat(pieces) == IF pieces = << >> THEN "" ELSE Head(pieces) \o Cat(Tail(pieces))

Digits == <<"0", "1", "2", "3", "4", "5", "6", "7", "8", "9">>
Digit(d) == Digits[d + 1]

\* n in decimal, zero-padded to w digits.
RECURSIVE Pad(_, _)
Pad(n, w) == IF w = 0 THEN "" ELSE Pad(n \div 10, w - 1) \o Digit(n % 10)

\* n in decimal, as Display for u32 writes it.
RECURSIVE Dec(_)
Dec(n) == IF n < 10 THEN Digit(n) ELSE Dec(n \div 10) \o Digit(n % 10)

\* The items of the pattern "%Y-%m-%dT%H-%M-%S.%.3f+%:z".
time_format ==
    <<"%Y", "-", "%m", "-", "%d", "T", "%H", "-", "%M", "-", "%S",
      ".", "%.3f", "+", "%:z">>

\* chrono's rendering of one item of a pattern: %.3f writes the dot and three
\* digits, %:z writes the sign, the hours, a colon and the minutes; anything
\* else is a literal.
format_item(now, item) ==
    CASE item = "%Y" -> Pad(now.year, 4)
      [] item = "%m" -> Pad(now.month, 2)
      [] item = "%d" -> Pad(now.day, 2)
      [] item = "%H" -> Pad(now.hour, 2)
      [] item = "%M" -> Pad(now.minute, 2)
      [] item = "%S" -> Pad(now.second, 2)
      [] item = "%.3f" -> "." \o Pad(now.millis, 3)
      [] item = "%:z" ->
            LET east == IF now.offset < 0 THEN -now.offset ELSE now.offset
            IN  (IF now.offset < 0 THEN "-" ELSE "+")
                    \o Pad(east \div 60, 2) \o ":" \o Pad(east % 60, 2)
      [] OTHER -> item

\* now_local.format(items), displayed.
format(now, items) == Cat([k \in DOMAIN items |-> format_item(now, items[k])])

\* Display for log::Level.
LevelName(level) ==
    CASE level = Error -> "ERROR"
      [] level = Warn -> "WARN"
      [] level = Info -> "INFO"
      [] level = Debug -> "DEBUG"
      [] level = Trace -> "TRACE"

\* termion's escape sequences.
Italic == "^[[3m"
Bold == "^[[1m"
StyleReset == "^[[m"
FgLightBlack == "^[[38;5;8m"
FgWhite == "^[[38;5;7m"
FgLightBlue == "^[[38;5;12m"
FgLightYellow == "^[[38;5;11m"
FgLightRed == "^[[38;5;9m"
FgLightWhite == "^[[38;5;15m"
FgReset == "^[[39m"
EscapeCodes ==
    {Italic, Bold, StyleReset, FgLightBlack, FgWhite, FgLightBlue,
     FgLightYellow, FgLightRed, FgLightWhite, FgReset}

level_color(level) ==
    CASE level = Trace -> FgLightBlack
      [] level = Debug -> FgWhite
      [] level = Info -> FgLightBlue
      [] level = Warn -> FgLightYellow
      [] level = Error -> FgLightRed

message_color(level) == IF level \in {Trace, Debug} THEN FgWhite ELSE FgLightWhite
message_style(level) == IF level \in {Trace, Debug} THEN "" ELSE Bold

\* Variant: the styled line number is written without its colon.
LineFmt_styled_without_colon(line, ansi) ==
    IF line # None
    THEN IF ansi THEN <<FgLightBlack, Dec(line[1]), FgReset>>
                 ELSE <<":", Dec(line[1])>>
    ELSE <<"">>

\* Display for LineFmt(line, ansi).
LineFmt(line, ansi) ==
    IF line # None
    THEN IF ansi THEN <<FgLightBlack, ":", Dec(line[1]), FgReset>>
                 ELSE <<":", Dec(line[1])>>
    ELSE <<"">>

\* The pieces write_record writes for the record at the instant now.
write_record(ansi, record, now) ==
    LET time == format(now, time_format)
        target == unwrap_or(record.module_path, record.target)
        level == record.level
        message == record.args
        line_number == record.line
    IN  IF ansi
        THEN <<Italic, FgLightBlack, time, StyleReset, FgReset, " [",
               FgWhite, target, FgReset>>
             \o LineFmt(line_number, TRUE)
             \o <<" ", Bold, level_color(level), LevelName(level), StyleReset,
                  FgReset, "] ",
                  message_style(level), message_color(level), message,
                  StyleReset, FgReset, "\n">>
        ELSE <<time, " [", target>>
             \o LineFmt(line_number, FALSE)
             \o <<" ", LevelName(level), "] ", message, "\n">>

\* A text with its escape sequences removed.
Strip(pieces) == SelectSeq(pieces, LAMBDA p : p \notin EscapeCodes)

Instants ==
    {[year |-> 2024, month |-> 1, day |-> 1, hour |-> 0, minute |-> 0,
      second |-> 0, millis |-> 0, offset |-> 0],
     [year |-> 2023, month |-> 12, day |-> 31, hour |-> 23, minute |-> 59,
      second |-> 59, millis |-> 999, offset |-> -330],
     [year |-> 2024, month |-> 6, day |-> 9, hour |-> 8, minute |-> 7,
      second |-> 6, millis |-> 26, offset |-> 60]}

Records ==
    [level : Level,
     target : {"app::net", "app"},
     module_path : {None, Some("app::net"), Some("app::db")},
     line : {None, Some(7), Some(120)},
     args : {"listening", "closed"}]

FormatInit ==
    /\ AtRest
    /\ perm = << >>
    /\ ob = << >>
    /\ \E record \in Records, now \in Instants :
          fmt = [record |-> record, now |-> now,
                 out |-> [ansi \in BOOLEAN |-> None]]

\* write_record(ansi, record, writer) at the instant fmt.now
WriteRecord ==
    /\ \E ansi \in BOOLEAN :
          /\ fmt.out[ansi] = None
          /\ fmt' = [fmt EXCEPT
                        !.out[ansi] = Some(write_record(ansi, fmt.record, fmt.now))]
    /\ UNCHANGED <<cvars, rvars, perm, ob>>

FormatNext == WriteRecord

FormatSpec == FormatInit /\ [][FormatNext]_vars

(***************************************************************************)
(* One OutputBuilder chain: with_dyn_endpoint, up to MaxChain setter       *)
(* calls, then build().  ob.calls records the calls made, in order.        *)
(***************************************************************************)
BuilderInit ==
    /\ AtRest
    /\ perm = << >>
    /\ fmt = << >>
    /\ ob = [builder |-> with_dyn_endpoint, calls |-> << >>, built |-> None]

Chaining == ob.built = None /\ Len(ob.calls) < MaxChain

\* .with_filter(filter)
CallWithFilter ==
    /\ Chaining
    /\ \E filter \in LevelFilter :
          ob' = [ob EXCEPT !.builder = with_filter(@, filter),
                           !.calls = Append(@, <<"with_filter", filter>>)]
    /\ UNCHANGED <<cvars, rvars, perm, fmt>>

\* .flush_on_newline(flush)
CallFlushOnNewline ==
    /\ Chaining
    /\ \E flush \in BOOLEAN :
          ob' = [ob EXCEPT !.builder = flush_on_newline(@, flush),
                           !.calls = Append(@, <<"flush_on_newline", flush>>)]
    /\ UNCHANGED <<cvars, rvars, perm, fmt>>

\* .with_ansi_escape_codes()
CallWithAnsiEscapeCodes ==
    /\ Chaining
    /\ ob' = [ob EXCEPT !.builder = with_ansi_escape_codes(@),
                        !.calls = Append(@, <<"with_ansi_escape_codes", TRUE>>)]
    /\ UNCHANGED <<cvars, rvars, perm, fmt>>

\* .build()
CallBuild ==
    /\ ob.built = None
    /\ ob' = [ob EXCEPT !.built = Some(build(ob.builder))]
    /\ UNCHANGED <<cvars, rvars, perm, fmt>>

BuilderNext ==
    CallWithFilter \/ CallFlushOnNewline \/ CallWithAnsiEscapeCodes \/ CallBuild

BuilderSpec == BuilderInit /\ [][BuilderNext]_vars

(***************************************************************************)
(* Dispatches after a panic: an installed logger with an endpoint whose    *)
(* write panics, and threads that call log() once more after returning.    *)
(***************************************************************************)
PoisonInit == RunInit /\ \E i \in DOMAIN kind : kind[i] = "panicking"

\* Thread t, back from log(), calls log(record) again.
CallLogAgain(t) ==
    /\ th[t].pc = "idle"
    /\ th[t].n >= MaxLogCalls
    /\ th[t].n < MaxLogCalls + 1
    /\ \E level \in Level :
          th' = [th EXCEPT ![t] =
                    step_to([th[t] EXCEPT !.op = "log", !.level = level, !.n = @ + 1],
                            installed, 1)]
    /\ UNCHANGED <<kind, holder, poisoned, sink, acquired>>
    /\ UNCHANGED <<cvars, xvars>>

PoisonNext ==
    \E t \in Threads :
        \/ CallLog(t)
        \/ CallLogAgain(t)
        \/ Lock(t)
        \/ Write(t)
        \/ Flush(t)

PoisonSpec == PoisonInit /\ [][PoisonNext]_vars

(***************************************************************************)
(* Threads over endpoints whose write and flush calls always return (Ok or *)
(* Err), under the fairness of FairRunSpec.                                *)
(***************************************************************************)
ReturningInit ==
    RunInit /\ \A i \in DOMAIN kind : kind[i] \in {"healthy", "failing"}

ReturningSpec ==
    /\ ReturningInit
    /\ [][RunNext]_vars
    /\ \A t \in Threads : WF_vars(Lock(t) \/ Write(t) \/ Flush(t))

(***************************************************************************)
(* Properties of the builder chain and the installation.                   *)
(***************************************************************************)
RECURSIVE SetMax(_)
SetMax(S) == LET x == CHOOSE y \in S : TRUE
             IN  IF S = {x} THEN x ELSE cmp_max(x, SetMax(S \ {x}))
RECURSIVE SetMin(_)
SetMin(S) == LET x == CHOOSE y \in S : TRUE
             IN  IF S = {x} THEN x ELSE cmp_min(x, SetMin(S \ {x}))

\* the filters stored in a logger's outputs
Filters(self) == {self.outputs[k].filter : k \in 1..Len(self.outputs)}

\* C1: enabled(S) is true iff some output's stored filter accepts S
\* (S <= filter), and false for every S when there is no output.
C1_EnabledIffSomeOutputAccepts ==
    \A S \in Level :
        enabled(logger, S) <=> (\E f \in Filters(logger) : S <= f)

\* C3: after every builder call max_level_in_use is the most verbose and
\* min_level_in_use the least verbose filter stored in the outputs, and both
\* are unset exactly when there is no output.
C3_AggregateIsRecomputed ==
    IF Filters(logger) = {}
    THEN logger.max_level_in_use = None /\ logger.min_level_in_use = None
    ELSE /\ logger.max_level_in_use = Some(SetMax(Filters(logger)))
         /\ logger.min_level_in_use = Some(SetMin(Filters(logger)))

\* C4: with a max override X set no stored filter exceeds X, and with a min
\* override Y set no stored filter is below Y (when both are set, Y <= X).
C4_OverridesClamp ==
    (logger.min_filter # None /\ logger.max_filter # None
        => logger.min_filter[1] <= logger.max_filter[1])
    => \A f \in Filters(logger) :
          /\ logger.max_filter # None => f <= logger.max_filter[1]
          /\ logger.min_filter # None => f >= logger.min_filter[1]

\* C9: after a successful enable the facade's maximum level is the most
\* verbose filter stored in the installed logger's outputs, or Off when it
\* has no output.
C9_MaxLevelIsMostVerboseFilter ==
    LOGGER # None =>
        MAX_LEVEL = IF Filters(LOGGER[1]) = {} THEN Off
                    ELSE SetMax(Filters(LOGGER[1]))

\* C10: once a logger is installed, no step changes the installed logger or
\* the facade's maximum level, and every further enable returns the error.
C10_SecondEnableFails ==
    [][LOGGER # None =>
          /\ LOGGER' = LOGGER
          /\ MAX_LEVEL' = MAX_LEVEL
          /\ (stage = "build" /\ stage' = "enabled" => enable_result' = "Err")]_vars

\* C10 witness: a second logger whose ceiling differs from the facade's
\* maximum level was refused.
C10_Witness ==
    /\ enable_result = "Err"
    /\ LOGGER # None
    /\ LOGGER[1] # logger
    /\ logger.max_level_in_use # None
    /\ logger.max_level_in_use[1] # MAX_LEVEL

(***************************************************************************)
(* Properties of log() and flush() at run time.                            *)
(***************************************************************************)
Endpoints == DOMAIN kind

\* the write calls of call n of thread t that endpoint i accepted
WritesOf(i, t, n) ==
    {k \in DOMAIN sink[i] : /\ sink[i][k].call = "write"
                            /\ sink[i][k].by = t
                            /\ sink[i][k].n = n}

\* position k of endpoint i starts a complete line: the head of a record
\* followed at once by the tail of the same record in the same format
LineAt(i, k) ==
    /\ sink[i][k].call = "write"
    /\ sink[i][k].ok
    /\ sink[i][k].part = "head"
    /\ k + 1 <= Len(sink[i])
    /\ sink[i][k + 1] = [sink[i][k] EXCEPT !.part = "tail"]

\* the complete lines of call n of thread t in endpoint i
LinesOf(i, t, n) == {k \in WritesOf(i, t, n) : LineAt(i, k)}

\* the flush calls of call n of thread t on endpoint i
FlushesOf(i, t, n) ==
    {k \in DOMAIN sink[i] : /\ sink[i][k].call = "flush"
                            /\ sink[i][k].by = t
                            /\ sink[i][k].n = n}

\* thread t has returned from a call of op
Returned(t, op) == th[t].pc = "idle" /\ th[t].op = op /\ th[t].n >= 1

\* C2: for every healthy, unpoisoned output D with stored filter F and every
\* record level S, log() writes exactly one line of the record, in D's
\* format, to D when S <= F and makes no write call on D otherwise, whatever
\* the other outputs' filters and the aggregate are.
C2_LogWritesIffOwnFilterAccepts ==
    \A t \in Threads : \A i \in Endpoints :
        (kind[i] = "healthy" /\ ~poisoned[i] /\ th[t].op = "log") =>
            LET F == installed.outputs[i].filter
                S == th[t].level
                n == th[t].n
            IN  /\ ~(S <= F) => WritesOf(i, t, n) = {}
                /\ Cardinality(LinesOf(i, t, n)) <= 1
                /\ Cardinality(WritesOf(i, t, n)) <= 2
                /\ \A k \in WritesOf(i, t, n) :
                      /\ sink[i][k].level = S
                      /\ sink[i][k].ansi = installed.outputs[i].ansi
                /\ Returned(t, "log") =>
                      /\ Cardinality(LinesOf(i, t, n)) = (IF S <= F THEN 1 ELSE 0)
                      /\ Cardinality(WritesOf(i, t, n)) = (IF S <= F THEN 2 ELSE 0)

\* C2 witness: a log() call has returned after writing its line to a healthy
\* output whose filter equals the record's level and nothing to another
\* healthy output whose filter is below it.
C2_Witness ==
    \E t \in Threads : \E i, j \in Endpoints :
        /\ Returned(t, "log")
        /\ kind[i] = "healthy" /\ kind[j] = "healthy"
        /\ th[t].level = installed.outputs[i].filter
        /\ th[t].level > installed.outputs[j].filter
        /\ LinesOf(i, t, th[t].n) # {}
        /\ WritesOf(j, t, th[t].n) = {}

\* C5: with an output whose write and flush always return Err, in any
\* position, log() makes one write attempt on it (no retry), does not panic,
\* and when it returns every healthy output has the record iff its own
\* filter accepts it.
C5_FailingOutputDoesNotPreventDelivery ==
    \A t \in Threads : \A f, h \in Endpoints :
        (kind[f] = "failing" /\ kind[h] = "healthy" /\ th[t].op = "log") =>
            LET n == th[t].n
            IN  /\ Cardinality(WritesOf(f, t, n)) <= 1
                /\ (th[t].pc = "panicked" => kind[th[t].i] = "panicking")
                /\ Returned(t, "log") =>
                      /\ Cardinality(LinesOf(h, t, n)) =
                            (IF th[t].level <= installed.outputs[h].filter THEN 1 ELSE 0)
                      /\ Cardinality(WritesOf(f, t, n)) =
                            (IF th[t].level <= installed.outputs[f].filter THEN 1 ELSE 0)

\* C5 witness: log() has returned, its write on a failing output registered
\* before a healthy one had failed, and the healthy output has the line.
C5_Witness ==
    \E t \in Threads : \E f, h \in Endpoints :
        /\ f < h
        /\ kind[f] = "failing" /\ kind[h] = "healthy"
        /\ Returned(t, "log")
        /\ \E k \in WritesOf(f, t, th[t].n) : ~sink[f][k].ok
        /\ \E k \in FlushesOf(f, t, th[t].n) : ~sink[f][k].ok
        /\ LinesOf(h, t, th[t].n) # {}

\* a step of thread t out of lock() on a poisoned endpoint
SkipsPoisoned(t) ==
    /\ th[t].pc = "lock"
    /\ poisoned[th[t].i]
    /\ th'[t] # th[t]

\* C6: when lock() fails on a poisoned endpoint, log() and flush() make no
\* call on that endpoint, do not panic, and go on to the next output (or
\* return after the last); when the call returns, every healthy output has
\* been written (log: iff its filter accepts) or flushed (flush: once) as if
\* the poisoned output were not there.
C6_PoisonedOutputIsSkipped ==
    /\ [][\A t \in Threads : SkipsPoisoned(t) =>
            /\ sink' = sink
            /\ holder' = holder
            /\ poisoned' = poisoned
            /\ th'[t].pc # "panicked"
            /\ IF th[t].i < Len(installed.outputs)
               THEN th'[t].pc = "lock" /\ th'[t].i = th[t].i + 1
               ELSE th'[t].pc = "idle"]_vars
    /\ [](\A t \in Threads : \A p, h \in Endpoints :
            (poisoned[p] /\ kind[h] = "healthy") =>
                /\ Returned(t, "log") =>
                      Cardinality(LinesOf(h, t, th[t].n)) =
                          (IF th[t].level <= installed.outputs[h].filter THEN 1 ELSE 0)
                /\ Returned(t, "flush") =>
                      Cardinality(FlushesOf(h, t, th[t].n)) = 1)

\* C6 witness: an output that flushes on every record is poisoned, and a
\* log() call (which can only have skipped it) has returned with its line
\* written to a later healthy output.
C6_Witness ==
    \E t \in Threads : \E p, h \in Endpoints :
        /\ p < h
        /\ poisoned[p]
        /\ installed.outputs[p].flush_on_newline
        /\ kind[h] = "healthy"
        /\ Returned(t, "log")
        /\ LinesOf(h, t, th[t].n) # {}

\* position of call <<t, n>> in the order of lock acquisitions of endpoint i
AcquiredAt(i, t, n) == CHOOSE k \in DOMAIN acquired[i] : acquired[i][k] = <<t, n>>

\* C8: under any interleaving, a healthy endpoint's content is a sequence of
\* complete lines (a head is followed at once by its own tail, or is the last
\* call and its writer is still inside write_record holding the lock), each
\* record appears at most once and exactly once after its log() returned if
\* the filter accepts it, and the lines are in lock acquisition order.
C8_LinesAreAtomicOnceAndInLockOrder ==
    \A i \in Endpoints : kind[i] = "healthy" =>
        /\ \A k \in DOMAIN sink[i] :
              LET c == sink[i][k]
              IN  /\ (c.call = "write" /\ c.part = "head") =>
                        \/ LineAt(i, k)
                        \/ /\ k = Len(sink[i])
                           /\ holder[i] = c.by
                           /\ th[c.by].pc = "write" /\ th[c.by].part = "tail"
                           /\ th[c.by].i = i /\ th[c.by].n = c.n
                  /\ (c.call = "write" /\ c.part = "tail") => (k > 1 /\ LineAt(i, k - 1))
        /\ \A t \in Threads : \A n \in 1..th[t].n :
              /\ Cardinality({k \in WritesOf(i, t, n) : sink[i][k].part = "head"}) <= 1
              /\ (Returned(t, "log") /\ n = th[t].n
                    /\ th[t].level <= installed.outputs[i].filter)
                    => Cardinality(LinesOf(i, t, n)) = 1
        /\ \A k1, k2 \in DOMAIN sink[i] :
              (k1 < k2 /\ sink[i][k1].call = "write" /\ sink[i][k2].call = "write"
                 /\ <<sink[i][k1].by, sink[i][k1].n>> # <<sink[i][k2].by, sink[i][k2].n>>)
              => AcquiredAt(i, sink[i][k1].by, sink[i][k1].n)
                   < AcquiredAt(i, sink[i][k2].by, sink[i][k2].n)

\* C8 witness: two threads contended for one healthy endpoint (one waited in
\* lock() while the other was between the two write calls of its line) and
\* both lines are now in it.
C8_Witness ==
    \E i \in Endpoints : \E t, u \in Threads :
        /\ t # u
        /\ kind[i] = "healthy"
        /\ LinesOf(i, t, th[t].n) # {}
        /\ LinesOf(i, u, th[u].n) # {}
        /\ Returned(t, "log") /\ Returned(u, "log")
\* thread t is dispatching a record that healthy output j accepts, in a
\* logger one of whose other outputs blocks
DispatchedBesideBlocked(t, j) ==
    /\ j \in Endpoints
    /\ kind[j] = "healthy"
    /\ \E b \in Endpoints : kind[b] = "blocking"
    /\ th[t].op = "log"
    /\ th[t].level <= installed.outputs[j].filter

\* C7: a blocked output does not stall the others: every record a thread
\* dispatches is eventually written to every other output whose filter
\* accepts it, wherever the blocked output is registered.
C7_BlockedOutputDoesNotStallOthers ==
    \A t \in Threads : \A j \in 1..MaxOutputs :
        DispatchedBesideBlocked(t, j) ~> (j \in Endpoints /\ LinesOf(j, t, th[t].n) # {})

(***************************************************************************)
(* Properties of the order of with_output calls.                           *)
(***************************************************************************)
PermDone == perm.next_a > Len(perm.outs) /\ perm.left_b = {}

\* C11: with the overrides fixed before the adds, every order of the
\* with_output calls of the same Outputs ends with the same max_level_in_use
\* and min_level_in_use.
C11_WithOutputCommutes ==
    PermDone =>
        /\ perm.a.max_level_in_use = perm.b.max_level_in_use
        /\ perm.a.min_level_in_use = perm.b.min_level_in_use

\* C11 witness: two Outputs with different filters were added in the two
\* orders, under an override.
C11_Witness ==
    /\ PermDone
    /\ Len(perm.outs) >= 2
    /\ perm.a.outputs # perm.b.outputs
    /\ perm.a.outputs[1].filter # perm.a.outputs[2].filter
    /\ perm.a.min_filter # None
    /\ perm.a.max_level_in_use # perm.a.min_level_in_use


(***************************************************************************)
(* Properties of the written line.                                         *)
(***************************************************************************)
Written(ansi) == fmt.out[ansi] # None
Text(ansi) == Cat(fmt.out[ansi][1])

\* C12: the plain line of an Info record with target "app::net", message
\* "listening" and no line number, written at 2024-01-01T00:00:00.000+00:00,
\* is exactly "2024-01-01T00:00:00.000+00:00 [app::net Info] listening\n".
C12_PlainLineIsExact ==
    ( /\ Written(FALSE)
      /\ fmt.record.level = Info
      /\ unwrap_or(fmt.record.module_path, fmt.record.target) = "app::net"
      /\ fmt.record.args = "listening"
      /\ fmt.record.line = None
      /\ fmt.now = [year |-> 2024, month |-> 1, day |-> 1, hour |-> 0,
                    minute |-> 0, second |-> 0, millis |-> 0, offset |-> 0] )
    => Text(FALSE) = "2024-01-01T00:00:00.000+00:00 [app::net Info] listening\n"

\* C13: the styled line with its escape sequences removed is the plain line
\* of the same record written at the same instant.
C13_StyledStrippedIsPlain ==
    (Written(TRUE) /\ Written(FALSE))
        => Cat(Strip(fmt.out[TRUE][1])) = Text(FALSE)

\* C13 witness: both lines of a record with a line number and no module path
\* are written, and the styled one carries escape sequences.
C13_Witness ==
    /\ Written(TRUE)
    /\ Written(FALSE)
    /\ fmt.record.line # None
    /\ fmt.record.module_path = None
    /\ Text(TRUE) # Text(FALSE)
    /\ Len(Strip(fmt.out[TRUE][1])) < Len(fmt.out[TRUE][1])


(***************************************************************************)
(* Properties of the OutputBuilder chain.                                  *)
(***************************************************************************)
\* The positions in ob.calls of the calls of one setter.
CallsOf(setter) == {k \in DOMAIN ob.calls : ob.calls[k][1] = setter}

\* The argument of the last call of the setter, if it was called.
LastArg(setter) ==
    IF CallsOf(setter) = {} THEN None
    ELSE Some(ob.calls[CHOOSE k \in CallsOf(setter) :
                            \A j \in CallsOf(setter) : j <= k][2])

\* C14: build() always gives an Output; its filter is the last with_filter
\* argument or Info, its flush_on_newline the last flush_on_newline argument
\* or true, its ansi flag true iff with_ansi_escape_codes was called; and at
\* every point of the chain each staged field holds what its own setter last
\* stored, whatever the other setters did.
C14_BuildResolvesStagedFields ==
    /\ ob.builder.filter = LastArg("with_filter")
    /\ ob.builder.flush_on_newline = LastArg("flush_on_newline")
    /\ ob.builder.ansi = LastArg("with_ansi_escape_codes")
    /\ ob.built # None =>
          /\ ob.built[1].filter \in LevelFilter
          /\ ob.built[1].filter = unwrap_or(LastArg("with_filter"), Info)
          /\ ob.built[1].flush_on_newline \in BOOLEAN
          /\ ob.built[1].flush_on_newline
                = unwrap_or(LastArg("flush_on_newline"), TRUE)
          /\ ob.built[1].ansi = (CallsOf("with_ansi_escape_codes") # {})

\* C14 witness: built after with_ansi_escape_codes and two with_filter calls
\* with different arguments, flush_on_newline never called.
C14_Witness ==
    /\ ob.built # None
    /\ Len(ob.calls) = MaxChain
    /\ ob.calls[1][1] = "with_ansi_escape_codes"
    /\ ob.calls[2][1] = "with_filter"
    /\ ob.calls[3][1] = "with_filter"
    /\ ob.calls[2][2] # ob.calls[3][2]
    /\ ob.built[1].filter = ob.calls[3][2]
    /\ ob.built[1].flush_on_newline


(***************************************************************************)
(* Properties of dispatches after an endpoint was poisoned.                *)
(***************************************************************************)
\* Some log() call has gone past output i without acquiring its lock.
SkippedBefore(i) ==
    \E u \in Threads : \E n \in 1..th[u].n :
        /\ \A k \in DOMAIN acquired[i] : acquired[i][k] # <<u, n>>
        /\ \/ n < th[u].n
           \/ th[u].pc = "idle"
           \/ th[u].pc \in {"lock", "write", "flush", "panicked"} /\ th[u].i > i

\* C15: after a dispatch has skipped output D because its lock was poisoned,
\* a later dispatch of a record D's filter accepts gets D's lock and goes on
\* to write the record to D.
C15_PoisonedOutputIsUsedAgain ==
    [][\A t \in Threads :
          ( /\ th[t].pc = "lock"
            /\ th[t].op = "log"
            /\ th'[t] # th[t]
            /\ SkippedBefore(th[t].i)
            /\ accepts(th[t].level, installed.outputs[th[t].i].filter) )
          => /\ holder'[th[t].i] = t
             /\ th'[t].pc = "write"]_vars


(***************************************************************************)
(* Properties of lock holding.                                             *)
(***************************************************************************)
\* The endpoints whose lock thread t holds.
HeldBy(t) == {i \in Endpoints : holder[i] = t}

\* C16: a thread holds at most one endpoint lock, and none while it is
\* between outputs (waiting in lock() for the next one) or outside log() and
\* flush(); over endpoints whose calls always return, every log() and flush()
\* call eventually returns, with no lock held.
C16_CallsReturnWithoutLocks ==
    /\ [](\A t \in Threads :
            /\ Cardinality(HeldBy(t)) <= 1
            /\ th[t].pc \in {"idle", "lock"} => HeldBy(t) = {}
            /\ th[t].pc \in {"write", "flush"} => HeldBy(t) = {th[t].i})
    /\ \A t \in Threads :
          (th[t].pc # "idle") ~> (th[t].pc = "idle" /\ HeldBy(t) = {})

\* C16 witness: both threads have returned, one from a log() call that took
\* the locks of two outputs, the first of them failing on every call and
\* with a filter that rejected the record, and no lock is held.
C16_Witness ==
    /\ \A t \in Threads : th[t].pc = "idle" /\ th[t].n >= 1 /\ HeldBy(t) = {}
    /\ \E t \in Threads :
          /\ th[t].op = "log"
          /\ Len(installed.outputs) = 2
          /\ kind[1] = "failing"
          /\ ~accepts(th[t].level, installed.outputs[1].filter)
          /\ \E k \in DOMAIN acquired[1] : acquired[1][k] = <<t, th[t].n>>
          /\ \E k \in DOMAIN acquired[2] : acquired[2][k] = <<t, th[t].n>>


(***************************************************************************)
(* Properties of flushing in log().                                        *)
(***************************************************************************)
\* Call n of thread t has taken the lock of output i.
Acquired(i, t, n) == \E k \in DOMAIN acquired[i] : acquired[i][k] = <<t, n>>

\* Thread t's current call is done with output i.
DoneWith(t, i) ==
    \/ th[t].pc = "idle" /\ th[t].n >= 1
    \/ th[t].pc \in {"lock", "write", "flush"} /\ th[t].i > i

\* C17: in every log() call, an output whose lock was taken is flushed
\* exactly once when its flush_on_newline is true, after the write attempt,
\* also when the write failed and when the output's filter rejected the
\* record; an output whose flush_on_newline is false is never flushed by
\* log(), and an output whose lock was not taken is not flushed.
C17_LogFlushesByPolicyOnly ==
    \A t \in Threads : \A i \in Endpoints :
        (th[t].op = "log" /\ kind[i] \in {"healthy", "failing"}) =>
            LET n == th[t].n
                output == installed.outputs[i]
            IN  /\ Cardinality(FlushesOf(i, t, n)) <= 1
                /\ ~output.flush_on_newline => FlushesOf(i, t, n) = {}
                /\ ~Acquired(i, t, n) => FlushesOf(i, t, n) = {}
                /\ \A f \in FlushesOf(i, t, n) : \A w \in WritesOf(i, t, n) : w < f
                /\ (DoneWith(t, i) /\ Acquired(i, t, n) /\ output.flush_on_newline)
                      => Cardinality(FlushesOf(i, t, n)) = 1

\* C17 witness: a log() call has returned after flushing, once each, an
\* output that rejected the record (nothing written) and an output whose
\* write failed.
C17_Witness ==
    \E t \in Threads : \E i, j \in Endpoints :
        /\ Returned(t, "log")
        /\ kind[i] = "healthy"
        /\ ~accepts(th[t].level, installed.outputs[i].filter)
        /\ WritesOf(i, t, th[t].n) = {}
        /\ Cardinality(FlushesOf(i, t, th[t].n)) = 1
        /\ kind[j] = "failing"
        /\ \E w \in WritesOf(j, t, th[t].n) : ~sink[j][w].ok
        /\ Cardinality(FlushesOf(j, t, th[t].n)) = 1


(***************************************************************************)
(* Properties of the granularity of locking.                               *)
(***************************************************************************)
\* C18: a thread waits only in lock() of the one output it is about to
\* write, holding no other lock, and exactly while that output's lock is
\* held; a thread that holds an output's lock goes on unless the endpoint's
\* own call does not return.  No lock spans the outputs.
C18_ThreadsWaitForOneOutputOnly ==
    \A t \in Threads :
        /\ th[t].pc = "lock" =>
              /\ HeldBy(t) = {}
              /\ (ENABLED Lock(t)) <=> holder[th[t].i] = 0
        /\ (th[t].pc \in {"write", "flush"} /\ kind[th[t].i] # "blocking")
              => ENABLED (Write(t) \/ Flush(t))

\* C18 witness: thread 1 holds the lock of one output while thread 2 holds
\* the lock of another.
C18_Witness ==
    \E a, b \in Endpoints :
        /\ a # b
        /\ holder[a] = 1
        /\ holder[b] = 2
        /\ th[1].pc \in {"write", "flush"}
        /\ th[2].pc \in {"write", "flush"}


(***************************************************************************)
(* Properties of the installed threshold.                                  *)
(***************************************************************************)
\* C19: after a successful enable(), the facade's maximum level is at least
\* every stored filter of the installed logger and min_level_in_use is at
\* most every stored filter, so no record an output's filter accepts is
\* above the facade's maximum level.
C19_ThresholdCoversEveryFilter ==
    LOGGER # None =>
        /\ \A f \in Filters(installed) :
              /\ f <= MAX_LEVEL
              /\ installed.max_level_in_use # None
              /\ installed.min_level_in_use # None
              /\ installed.min_level_in_use[1] <= f
        /\ \A level \in Level :
              (\E k \in DOMAIN installed.outputs :
                    accepts(level, installed.outputs[k].filter))
                 => level <= MAX_LEVEL

\* C19 witness: enable() has succeeded on a logger with two outputs of
\* different stored filters, built with an override, and the facade's
\* maximum level is above one of the filters.
C19_Witness ==
    /\ enable_result = "Ok"
    /\ LOGGER # None
    /\ Len(installed.outputs) = 2
    /\ installed.outputs[1].filter < installed.outputs[2].filter
    /\ (installed.min_filter # None \/ installed.max_filter # None)
    /\ installed.outputs[1].filter < MAX_LEVEL
    /\ installed.outputs[2].filter >= Error


(***************************************************************************)
(* Properties of the installed logger's configuration.                     *)
(***************************************************************************)
\* C20: no step of enabled(), log() or flush(), of any thread and whatever
\* the endpoints do, changes the installed logger: its outputs and their
\* order, each output's filter, ansi flag and flush_on_newline, the
\* overrides, max_level_in_use and min_level_in_use; nor the facade's
\* maximum level.
C20_InstalledLoggerIsImmutable ==
    [][/\ LOGGER # None
       /\ LOGGER' # None
       /\ Len(LOGGER'[1].outputs) = Len(installed.outputs)
       /\ \A k \in DOMAIN installed.outputs :
             /\ LOGGER'[1].outputs[k].filter = installed.outputs[k].filter
             /\ LOGGER'[1].outputs[k].ansi = installed.outputs[k].ansi
             /\ LOGGER'[1].outputs[k].flush_on_newline
                   = installed.outputs[k].flush_on_newline
       /\ LOGGER'[1].min_filter = installed.min_filter
       /\ LOGGER'[1].max_filter = installed.max_filter
       /\ LOGGER'[1].max_level_in_use = installed.max_level_in_use
       /\ LOGGER'[1].min_level_in_use = installed.min_level_in_use
       /\ MAX_LEVEL' = MAX_LEVEL]_vars

\* C20 witness: one thread is back from enabled() and the other from a log()
\* call whose write failed on one output and reached the other, and the
\* installed logger is still the one that was built.
C20_Witness ==
    \E t, u \in Threads : \E f, h \in Endpoints :
        /\ th[t].pc = "idle" /\ th[t].op = "enabled" /\ th[t].n >= 1
        /\ Returned(u, "log")
        /\ kind[f] = "failing"
        /\ \E w \in WritesOf(f, u, th[u].n) : ~sink[f][w].ok
        /\ LinesOf(h, u, th[u].n) # {}
        /\ LOGGER = Some(logger)

====
